---- MODULE Spec2Model ----
(***************************************************************************)
(* Model of src/main.rs: an agent loop (Agent::run) that calls a language  *)
(* model, extracts and parses a tool call from the reply, executes it      *)
(* against the filesystem below WORKSPACE_ROOT (execute_tool) and feeds    *)
(* the serialized result back into the message history.                    *)
(*                                                                         *)
(* Text conventions.  A path string is modelled by its split on '/': the   *)
(* string "a/../b" is <<"a", "..", "b">>, "/etc/x" is <<"", "etc", "x">>,  *)
(* "d/" is <<"d", "">> and the empty string is <<"">>; the split is a      *)
(* bijection between strings and non-empty sequences of '/'-free segments. *)
(* A filesystem location is the sequence of names below "/".               *)
(***************************************************************************)
EXTENDS Naturals, Sequences, FiniteSets, TLC

VARIABLES
    messages,   \* Agent.messages: the chat history
    pc,         \* position of Agent::run (or "unit" when execute_tool runs alone)
    resp,       \* the response envelope the last model call received
    reply,      \* reply of the current iteration (sequence of text tokens)
    tool_call,  \* the ToolCall decoded in the current iteration
    result,     \* the ToolResult of the last execute_tool
    fs,         \* the filesystem: location -> node
    fsLog,      \* the filesystem calls of the last execute_tool: [op, loc, ok]
    calls,      \* number of model calls issued
    execs,      \* number of execute_tool invocations
    ctx,        \* the "messages" field of the last request body
    final,      \* the text printed as the final assistant answer
    outcome,    \* what run() has returned: "running", "ok" or "err"
    last_call,  \* the ToolCall given to the last execute_tool
    resolved,   \* what resolve_workspace_path returned in the last execute_tool
    replies     \* history variable: the replies call_llm has returned, in order

vars == <<messages, pc, resp, reply, tool_call, result, fs, fsLog, calls, execs,
          ctx, final, outcome, last_call, resolved, replies>>

----------------------------------------------------------------------------
(* Bounds *)

\* model calls per run
MaxCalls == 3
\* execute_tool invocations when the executor is exercised on its own
MaxOps == 2

----------------------------------------------------------------------------
(* Sequences helpers *)

Front(s) == SubSeq(s, 1, Len(s) - 1)
Last(s) == s[Len(s)]
IsPrefix(s, t) == Len(s) <= Len(t) /\ SubSeq(t, 1, Len(s)) = s
Perms(S) == {p \in [1..Cardinality(S) -> S] : \A i, j \in DOMAIN p : p[i] = p[j] => i = j}

----------------------------------------------------------------------------
(* Paths: std::path as used by the sandbox *)

WORKSPACE_ROOT == <<"", "home", "pc2dev", "ai_workspace">>

\* Path::has_root: the string starts with '/'
has_root(p) == Len(p) >= 2 /\ p[1] = ""

\* Path::components: empty segments (repeated or trailing '/') and "." are
\* dropped, except a "." that starts a relative path; ".." is ParentDir.
components(p) ==
    LET F[i \in 0..Len(p)] ==
          IF i = 0
          THEN IF has_root(p) THEN <<[kind |-> "RootDir", name |-> "/"]>> ELSE <<>>
          ELSE F[i - 1] \o
               (CASE p[i] = ""   -> <<>>
                  [] p[i] = "."  -> IF i = 1 /\ ~has_root(p)
                                    THEN <<[kind |-> "CurDir", name |-> "."]>>
                                    ELSE <<>>
                  [] p[i] = ".." -> <<[kind |-> "ParentDir", name |-> ".."]>>
                  [] OTHER       -> <<[kind |-> "Normal", name |-> p[i]]>>)
    IN F[Len(p)]

\* An error message: fixed text, the path it displays, the OS cause.
Msg(text, path, cause) == [text |-> text, path |-> path, cause |-> cause]
NoMsg == Msg("", <<>>, "")

ensure_safe_relative_first(rel) ==
    LET c == components(rel)
    IN IF Len(c) > 0 /\ c[1].kind = "ParentDir"
       THEN [ok |-> FALSE, err |-> Msg("Path must not contain '..' components: ", rel, "")]
       ELSE [ok |-> TRUE, err |-> NoMsg]

ensure_safe_relative(rel) ==
    IF \E i \in DOMAIN components(rel) : components(rel)[i].kind = "ParentDir"
    THEN [ok |-> FALSE, err |-> Msg("Path must not contain '..' components: ", rel, "")]
    ELSE [ok |-> TRUE, err |-> NoMsg]

\* Path::join (PathBuf::push): an absolute argument replaces the base;
\* otherwise a separator is added unless the base already ends with one.
join(base, rel) ==
    IF has_root(rel) THEN rel
    ELSE IF Last(base) = "" THEN Front(base) \o rel
    ELSE base \o rel

resolve_workspace_path(rel) ==
    LET chk == ensure_safe_relative(rel)
    IN IF chk.ok
       THEN [ok |-> TRUE, path |-> join(WORKSPACE_ROOT, rel), err |-> NoMsg]
       ELSE [ok |-> FALSE, path |-> <<>>, err |-> chk.err]

----------------------------------------------------------------------------
(* The filesystem as the kernel resolves an absolute path string *)

\* Location named by an absolute path: "" and "." name the directory reached
\* so far, ".." its parent (resolve_workspace_path lets no ".." through).
Locate(p) ==
    LET F[i \in 1..Len(p)] ==
          IF i = 1 THEN <<>>
          ELSE CASE p[i] \in {"", "."} -> F[i - 1]
                 [] p[i] = ".." -> IF F[i - 1] = <<>> THEN <<>> ELSE Front(F[i - 1])
                 [] OTHER -> Append(F[i - 1], p[i])
    IN F[Len(p)]

\* A path ending in '/' or '/.' can only name a directory.
DirOnly(p) == Len(p) >= 2 /\ Last(p) \in {"", "."}

\* The path string of a location.
Display(loc) == IF loc = <<>> THEN <<"", "">> ELSE <<"">> \o loc

\* Path::parent: the path without its last component; None for "/".
parent(p) ==
    LET loc == Locate(p)
    IN IF loc = <<>> THEN [some |-> FALSE, loc |-> <<>>]
       ELSE [some |-> TRUE, loc |-> Front(loc)]

Dir == [kind |-> "dir", content |-> ""]
Socket == [kind |-> "socket", content |-> ""]
File(c) == [kind |-> "file", content |-> c]
\* stands for file bytes that are not valid UTF-8
BinaryContent == "<non-utf8>"

Exists(f, loc) == loc = <<>> \/ loc \in DOMAIN f
IsDir(f, loc) == loc = <<>> \/ (loc \in DOMAIN f /\ f[loc].kind = "dir")

\* errno of walking to the directory that holds loc ("" when it is reached)
WalkErr(f, loc) ==
    LET bad == {i \in 1..(Len(loc) - 1) : ~IsDir(f, SubSeq(loc, 1, i))}
    IN IF bad = {} THEN ""
       ELSE LET i == CHOOSE k \in bad : \A j \in bad : k <= j
            IN IF Exists(f, SubSeq(loc, 1, i)) THEN "ENOTDIR" ELSE "ENOENT"

Put(f, loc, node) == [l \in DOMAIN f \cup {loc} |-> IF l = loc THEN node ELSE f[l]]

\* mkdir(2)
mkdir(f, loc) ==
    IF WalkErr(f, loc) # "" THEN [errno |-> WalkErr(f, loc), fs |-> f]
    ELSE IF Exists(f, loc) THEN [errno |-> "EEXIST", fs |-> f]
    ELSE [errno |-> "", fs |-> Put(f, loc, Dir)]

\* std::fs::create_dir_all: mkdir; on NotFound create the parent first and
\* mkdir again; any other failure is fine when the path is a directory.
\* log: the mkdir calls made, in no particular order.
\* a directory that is emptied and made afresh when it already exists
create_dir_all_fresh(f, loc) ==
    LET keep == {l \in DOMAIN f : ~(Len(l) > Len(loc) /\ SubSeq(l, 1, Len(loc)) = loc)}
    IN IF IsDir(f, loc) /\ WalkErr(f, loc) = ""
       THEN [errno |-> "", fs |-> [l \in keep |-> f[l]],
             log |-> {[op |-> "mkdir", loc |-> loc, ok |-> TRUE]}]
       ELSE [errno |-> "ENOENT", fs |-> f, log |-> {[op |-> "mkdir", loc |-> loc, ok |-> FALSE]}]

RECURSIVE create_dir_all(_, _)
create_dir_all(f, loc) ==
    LET r == mkdir(f, loc)
        e == [op |-> "mkdir", loc |-> loc, ok |-> r.errno = ""]
    IN IF r.errno = "" THEN [errno |-> "", fs |-> r.fs, log |-> {e}]
       ELSE IF r.errno # "ENOENT"
       THEN [errno |-> IF IsDir(f, loc) THEN "" ELSE r.errno, fs |-> f, log |-> {e}]
       ELSE IF loc = <<>>
       THEN [errno |-> "failed to create whole tree", fs |-> f, log |-> {e}]
       ELSE LET pr == create_dir_all(f, Front(loc))
            IN IF pr.errno # "" THEN [pr EXCEPT !.log = pr.log \cup {e}]
               ELSE LET r2 == mkdir(pr.fs, loc)
                        e2 == [op |-> "mkdir", loc |-> loc, ok |-> r2.errno = ""]
                    IN [errno |-> IF r2.errno = "" \/ IsDir(pr.fs, loc) THEN "" ELSE r2.errno,
                        fs |-> r2.fs, log |-> pr.log \cup {e, e2}]

\* std::fs::write: open(O_WRONLY | O_CREAT | O_TRUNC) and write all of it.
fs_write(f, p, content) ==
    LET loc == Locate(p)
        errno == IF WalkErr(f, loc) # "" THEN WalkErr(f, loc)
                 ELSE IF IsDir(f, loc) THEN "EISDIR"
                 ELSE IF DirOnly(p)
                      THEN (IF Exists(f, loc) THEN "ENOTDIR"
                            ELSE IF Last(p) = "" THEN "EISDIR" ELSE "ENOENT")
                 ELSE IF Exists(f, loc) /\ f[loc].kind = "socket" THEN "ENXIO"
                 ELSE ""
    IN [errno |-> errno,
        fs |-> IF errno = "" THEN Put(f, loc, File(content)) ELSE f,
        log |-> {[op |-> "write", loc |-> loc, ok |-> errno = ""]}]

\* std::fs::read_to_string: the whole file, which must be valid UTF-8.
fs_read_to_string(f, p) ==
    LET loc == Locate(p)
        errno == IF WalkErr(f, loc) # "" THEN WalkErr(f, loc)
                 ELSE IF ~Exists(f, loc) THEN "ENOENT"
                 ELSE IF IsDir(f, loc) THEN "EISDIR"
                 ELSE IF DirOnly(p) THEN "ENOTDIR"
                 ELSE IF f[loc].kind = "socket" THEN "ENXIO"
                 ELSE IF f[loc].content = BinaryContent THEN "InvalidData"
                 ELSE ""
    IN [errno |-> errno,
        content |-> IF errno = "" THEN f[loc].content ELSE "",
        log |-> {[op |-> "read", loc |-> loc, ok |-> errno = ""]}]

Children(f, loc) == {l \in DOMAIN f : Len(l) = Len(loc) + 1 /\ Front(l) = loc}

\* std::fs::read_dir: the direct children, in an order the OS chooses.
fs_read_dir(f, p) ==
    LET loc == Locate(p)
        errno == IF WalkErr(f, loc) # "" THEN WalkErr(f, loc)
                 ELSE IF ~Exists(f, loc) THEN "ENOENT"
                 ELSE IF ~IsDir(f, loc) THEN "ENOTDIR"
                 ELSE ""
    IN [errno |-> errno,
        entries |-> IF errno = "" THEN Children(f, loc) ELSE {},
        log |-> {[op |-> "read_dir", loc |-> loc, ok |-> errno = ""]}]

----------------------------------------------------------------------------
(* Tool calls and results *)

ListDir(path) == [tool |-> "ListDir", path |-> path, content |-> ""]
ReadFile(path) == [tool |-> "ReadFile", path |-> path, content |-> ""]
WriteFile(path, content) == [tool |-> "WriteFile", path |-> path, content |-> content]
NoCall == [tool |-> "", path |-> <<>>, content |-> ""]

\* serde_json values carried by ToolResult::Ok
NoValue == [shape |-> "none", entries |-> <<>>, content |-> "", written |-> FALSE]
EntriesValue(es) == [NoValue EXCEPT !.shape = "entries", !.entries = es]
ContentValue(c) == [NoValue EXCEPT !.shape = "content", !.content = c]
WrittenValue == [NoValue EXCEPT !.shape = "written", !.written = TRUE]

ToolOk(v) == [variant |-> "Ok", result |-> v, message |-> NoMsg]
ToolError(m) == [variant |-> "Error", result |-> NoValue, message |-> m]
NoResult == [variant |-> "", result |-> NoValue, message |-> NoMsg]

\* One list_dir entry.  file_name() is an OsString, which serde serializes
\* as the newtype variant {"Unix": <bytes>}.
Entry_file_unless_dir(f, l) == [name |-> [Unix |-> Last(l)],
                               is_dir |-> f[l].kind = "dir",
                               is_file |-> f[l].kind # "dir"]

Entry(f, l) == [name |-> [Unix |-> Last(l)],
                is_dir |-> f[l].kind = "dir",
                is_file |-> f[l].kind = "file"]

NoResolve == [ok |-> FALSE, path |-> <<>>, err |-> NoMsg]

\* The orders in which read_dir may yield the children of the listed directory.
Orders(call, f) ==
    IF call.tool = "ListDir" /\ resolve_workspace_path(call.path).ok
    THEN Perms(fs_read_dir(f, resolve_workspace_path(call.path).path).entries)
    ELSE {<<>>}

list_dir(path, f, order) ==
    LET r == resolve_workspace_path(path)
        rd == fs_read_dir(f, r.path)
    IN IF ~r.ok THEN [result |-> ToolError(r.err), fs |-> f, log |-> {}, resolved |-> r]
       ELSE IF rd.errno # ""
       THEN [result |-> ToolError(Msg("read_dir failed on ", r.path, rd.errno)),
             fs |-> f, log |-> rd.log, resolved |-> r]
       ELSE [result |-> ToolOk(EntriesValue([i \in DOMAIN order |-> Entry(f, order[i])])),
             fs |-> f, log |-> rd.log, resolved |-> r]

read_file(path, f) ==
    LET r == resolve_workspace_path(path)
        rd == fs_read_to_string(f, r.path)
    IN IF ~r.ok THEN [result |-> ToolError(r.err), fs |-> f, log |-> {}, resolved |-> r]
       ELSE IF rd.errno # ""
       THEN [result |-> ToolError(Msg("Failed to read ", r.path, rd.errno)),
             fs |-> f, log |-> rd.log, resolved |-> r]
       ELSE [result |-> ToolOk(ContentValue(rd.content)),
             fs |-> f, log |-> rd.log, resolved |-> r]

write_file_append(path, content, f) ==
    LET r == resolve_workspace_path(path)
        loc == Locate(r.path)
        old == IF r.ok /\ loc \in DOMAIN f /\ f[loc].kind = "file" /\ f[loc].content # BinaryContent
               THEN f[loc].content ELSE ""
        c == IF old = "" THEN content ELSE IF content = "" THEN old ELSE "<appended>"
    IN IF ~r.ok THEN [result |-> ToolError(r.err), fs |-> f, log |-> {}, resolved |-> r]
       ELSE LET par == parent(r.path)
                mk == IF par.some THEN create_dir_all(f, par.loc)
                      ELSE [errno |-> "", fs |-> f, log |-> {}]
                wr == fs_write(mk.fs, r.path, c)
            IN IF mk.errno # ""
               THEN [result |-> ToolError(Msg("Failed to create dirs ", Display(par.loc), mk.errno)),
                     fs |-> mk.fs, log |-> mk.log, resolved |-> r]
               ELSE IF wr.errno # ""
               THEN [result |-> ToolError(Msg("Failed to write ", r.path, wr.errno)),
                     fs |-> wr.fs, log |-> mk.log \cup wr.log, resolved |-> r]
               ELSE [result |-> ToolOk(WrittenValue),
                     fs |-> wr.fs, log |-> mk.log \cup wr.log, resolved |-> r]

write_file_no_dirs(path, content, f) ==
    LET r == resolve_workspace_path(path)
        wr == fs_write(f, r.path, content)
    IN IF ~r.ok THEN [result |-> ToolError(r.err), fs |-> f, log |-> {}, resolved |-> r]
       ELSE IF wr.errno # ""
       THEN [result |-> ToolError(Msg("Failed to write ", r.path, wr.errno)),
             fs |-> wr.fs, log |-> wr.log, resolved |-> r]
       ELSE [result |-> ToolOk(WrittenValue), fs |-> wr.fs, log |-> wr.log, resolved |-> r]

\* a failed write that tidies up by removing the parent directory
write_file_cleanup(path, content, f) ==
    LET r == resolve_workspace_path(path)
    IN IF ~r.ok THEN [result |-> ToolError(r.err), fs |-> f, log |-> {}, resolved |-> r]
       ELSE LET par == parent(r.path)
                mk == IF par.some THEN create_dir_all(f, par.loc)
                      ELSE [errno |-> "", fs |-> f, log |-> {}]
                wr == fs_write(mk.fs, r.path, content)
                keep == {l \in DOMAIN mk.fs : ~IsPrefix(par.loc, l)}
            IN IF mk.errno # ""
               THEN [result |-> ToolError(Msg("Failed to create dirs ", Display(par.loc), mk.errno)),
                     fs |-> mk.fs, log |-> mk.log, resolved |-> r]
               ELSE IF wr.errno # ""
               THEN [result |-> ToolError(Msg("Failed to write ", r.path, wr.errno)),
                     fs |-> [l \in keep |-> mk.fs[l]], log |-> mk.log \cup wr.log,
                     resolved |-> r]
               ELSE [result |-> ToolOk(WrittenValue),
                     fs |-> wr.fs, log |-> mk.log \cup wr.log, resolved |-> r]

write_file(path, content, f) ==
    LET r == resolve_workspace_path(path)
    IN IF ~r.ok THEN [result |-> ToolError(r.err), fs |-> f, log |-> {}, resolved |-> r]
       ELSE LET par == parent(r.path)
                mk == IF par.some THEN create_dir_all(f, par.loc)
                      ELSE [errno |-> "", fs |-> f, log |-> {}]
                wr == fs_write(mk.fs, r.path, content)
            IN IF mk.errno # ""
               THEN [result |-> ToolError(Msg("Failed to create dirs ", Display(par.loc), mk.errno)),
                     fs |-> mk.fs, log |-> mk.log, resolved |-> r]
               ELSE IF wr.errno # ""
               THEN [result |-> ToolError(Msg("Failed to write ", r.path, wr.errno)),
                     fs |-> wr.fs, log |-> mk.log \cup wr.log, resolved |-> r]
               ELSE [result |-> ToolOk(WrittenValue),
                     fs |-> wr.fs, log |-> mk.log \cup wr.log, resolved |-> r]

\* execute_tool: the match over the three variants.
execute_tool(call, f, order) ==
    CASE call.tool = "ListDir"   -> list_dir(call.path, f, order)
      [] call.tool = "ReadFile"  -> read_file(call.path, f)
      [] call.tool = "WriteFile" -> write_file(call.path, call.content, f)

\* One invocation of execute_tool on the current filesystem.
Execute(call) ==
    \E order \in Orders(call, fs) :
        LET x == execute_tool(call, fs, order)
        IN /\ result' = x.result
           /\ fs' = x.fs
           /\ fsLog' = x.log
           /\ resolved' = x.resolved
           /\ last_call' = call
           /\ execs' = execs + 1

----------------------------------------------------------------------------
(* Text: a string is a sequence of tokens, each one character (or a fixed    *)
(* chunk of prose) or one JSON object written out in full.                   *)

\* A JSON object as the ToolCall deserializer sees it.
Json(hasTool, tool, hasPath, path, hasContent, content) ==
    [hasTool |-> hasTool, tool |-> tool, hasPath |-> hasPath, path |-> path,
     hasContent |-> hasContent, content |-> content]
NoJson == Json(FALSE, "", FALSE, <<>>, FALSE, "")

Ch(c) == [isJson |-> FALSE, c |-> c, j |-> NoJson]
Js(o) == [isJson |-> TRUE, c |-> "", j |-> o]

Whitespace == {Ch(" "), Ch("\n"), Ch("\r"), Ch("\t")}
\* the grave accent U+0060 (the character itself cannot appear in a TLA+ string)
Backtick == Ch("U+0060")

starts_with(t, pre) == IsPrefix(pre, t)
Drop(t, n) == SubSeq(t, n + 1, Len(t))

\* str::trim_end_matches / trim_start_matches over a set of characters
trim_end_in(t, S) ==
    LET keep == {i \in DOMAIN t : t[i] \notin S}
    IN IF keep = {} THEN <<>>
       ELSE SubSeq(t, 1, CHOOSE i \in keep : \A k \in keep : k <= i)
trim_start_in(t, S) ==
    LET keep == {i \in DOMAIN t : t[i] \notin S}
    IN IF keep = {} THEN <<>>
       ELSE SubSeq(t, CHOOSE i \in keep : \A k \in keep : i <= k, Len(t))
trim(t) == trim_start_in(trim_end_in(t, Whitespace), Whitespace)

\* str::find('\n'): index of the first line feed, 0 when there is none
find_newline(t) ==
    LET at == {i \in DOMAIN t : t[i] = Ch("\n")}
    IN IF at = {} THEN 0 ELSE CHOOSE i \in at : \A k \in at : i <= k

FenceJson == <<Backtick, Backtick, Backtick, Ch("j"), Ch("s"), Ch("o"), Ch("n")>>
Fence == <<Backtick, Backtick, Backtick>>

strip_one_newline(t) ==
    IF starts_with(t, <<Ch("\n")>>) \/ starts_with(t, <<Ch("\r")>>) THEN Drop(t, 1) ELSE t

extract_json_from_markdown_block(text) ==
    LET at == {i \in DOMAIN text : starts_with(Drop(text, i - 1), Fence)}
        first == CHOOSE i \in at : \A k \in at : i <= k
        body == Drop(text, first - 1 + Len(Fence))
        close == {i \in DOMAIN body : starts_with(Drop(body, i - 1), Fence)}
        inner == IF close = {} THEN body
                 ELSE SubSeq(body, 1, (CHOOSE i \in close : \A k \in close : i <= k) - 1)
        b == IF find_newline(inner) > 0 THEN Drop(inner, find_newline(inner)) ELSE inner
    IN IF at = {} THEN trim(text) ELSE trim(b)

extract_json_from_markdown(text) ==
    LET trimmed == trim(text)
    IN IF starts_with(trimmed, FenceJson)
       THEN LET inner == trim(strip_one_newline(Drop(trimmed, Len(FenceJson))))
            IN trim(trim_end_in(inner, {Backtick}))
       ELSE IF starts_with(trimmed, Fence)
       THEN LET a == Drop(trimmed, Len(Fence))
                b == IF find_newline(a) > 0 THEN Drop(a, find_newline(a) - 1) ELSE a
                inner == trim(strip_one_newline(b))
            IN trim(trim_end_in(inner, {Backtick}))
       ELSE trimmed

\* serde_json::from_str::<ToolCall>: one JSON object (JSON whitespace around
\* it is allowed), internally tagged by "tool", with the variant's fields.
ToolTags == [list_dir |-> "ListDir", read_file |-> "ReadFile", write_file |-> "WriteFile"]

from_str_ToolCall_default_content(text) ==
    LET t == trim(text)
        o == t[1].j
    IN IF Len(t) = 1 /\ t[1].isJson /\ o.hasTool /\ o.tool \in DOMAIN ToolTags /\ o.hasPath
       THEN [ok |-> TRUE,
             call |-> [tool |-> ToolTags[o.tool], path |-> o.path,
                       content |-> IF o.tool = "write_file" /\ o.hasContent
                                   THEN o.content ELSE ""]]
       ELSE [ok |-> FALSE, call |-> NoCall]

from_str_ToolCall(text) ==
    LET t == trim(text)
        o == t[1].j
    IN IF Len(t) = 1 /\ t[1].isJson /\ o.hasTool /\ o.tool \in DOMAIN ToolTags
          /\ o.hasPath /\ (o.tool = "write_file" => o.hasContent)
       THEN [ok |-> TRUE,
             call |-> [tool |-> ToolTags[o.tool], path |-> o.path,
                       content |-> IF o.tool = "write_file" THEN o.content ELSE ""]]
       ELSE [ok |-> FALSE, call |-> NoCall]

\* serde_json::to_string(&ToolResult): tagged by "status", variant names in
\* lower case, beside the variant's own field.
NoResultJson == [status |-> "", keys |-> {}, result |-> NoValue, message |-> NoMsg]
to_string_untagged(r) ==
    IF r.variant = "Ok"
    THEN [status |-> "", keys |-> {"result"}, result |-> r.result, message |-> NoMsg]
    ELSE [status |-> "", keys |-> {"message"}, result |-> NoValue, message |-> r.message]

to_string(r) ==
    IF r.variant = "Ok"
    THEN [status |-> "ok", keys |-> {"status", "result"}, result |-> r.result, message |-> NoMsg]
    ELSE [status |-> "error", keys |-> {"status", "message"}, result |-> NoValue,
          message |-> r.message]

----------------------------------------------------------------------------
(* Chat messages *)

ChatMessage(role, text, json) == [role |-> role, content |-> [text |-> text, json |-> json]]

SystemPrompt == <<Ch("You are a Rust coding agent operating inside a local filesystem workspace. ...")>>
InitialTask == <<Ch("create a text file in the workspace with the contents 'hello world'")>>

\* Agent::new
Agent_new(initial_user_task) ==
    << ChatMessage("system", SystemPrompt, NoResultJson),
       ChatMessage("user", initial_user_task, NoResultJson) >>

MarkerMessage == ChatMessage("assistant", <<Ch("TOOL CALL")>>, NoResultJson)
ReplyMessage(text) == ChatMessage("assistant", text, NoResultJson)
ResultMessage(r) == ChatMessage("user", <<Ch("TOOL_RESULT: ")>>, to_string(r))

----------------------------------------------------------------------------
(* The model call *)

\* What comes back from POST /v1/chat/completions: whether send() worked,
\* the HTTP status, whether the body deserializes as Resp { choices: [...] }
\* and the message contents of its choices.
Envelope(net, status, decodes, choices) ==
    [net |-> net, status |-> status, decodes |-> decodes, choices |-> choices]
NoResp == Envelope("", 0, FALSE, <<>>)

is_success(status) == status >= 200 /\ status <= 299

\* Agent::call_llm, from the point where the response (or failure) arrives
call_llm(env) ==
    IF env.net # "ok" THEN [ok |-> FALSE, content |-> <<>>]
    ELSE IF ~is_success(env.status) THEN [ok |-> FALSE, content |-> <<>>]
    ELSE IF ~env.decodes THEN [ok |-> FALSE, content |-> <<>>]
    ELSE [ok |-> TRUE, content |-> IF Len(env.choices) > 0 THEN env.choices[1] ELSE <<>>]

----------------------------------------------------------------------------
(* Initial filesystems *)

Root == Locate(WORKSPACE_ROOT)
Base == (<<"home">> :> Dir) @@ (<<"home", "pc2dev">> :> Dir)
        @@ (<<"etc">> :> Dir) @@ (<<"etc", "x">> :> File("secret"))

\* the workspace holds a file f, a directory d with a file g
FsPopulated == Base @@ (Root :> Dir) @@ (Root \o <<"f">> :> File("old"))
               @@ (Root \o <<"d">> :> Dir) @@ (Root \o <<"d", "g">> :> File("line1\nline2"))
\* the workspace directory has not been created yet
FsNoRoot == Base
\* the workspace holds a regular file named sub, a socket s and a binary file b
FsOdd == Base @@ (Root :> Dir) @@ (Root \o <<"sub">> :> File(""))
         @@ (Root \o <<"s">> :> Socket) @@ (Root \o <<"b">> :> File(BinaryContent))

InitialFs == {FsPopulated, FsNoRoot, FsOdd}

----------------------------------------------------------------------------
(* execute_tool on its own: any sequence of tool calls *)

Paths == { <<"f">>, <<"d">>, <<"d", "g">>, <<"sub", "dir", "file.txt">>,
           <<"a", "..", "b">>, <<"..", "x">>, <<"d", "..">>,
           <<"", "etc", "x">>, <<"">>, <<"d", "">>, <<"n", "s", ".">>,
           <<"f", "x">>, <<".", "f">>, <<"s">>, <<"b">> }
Contents == {"", "line1\nline2"}

ToolCalls == {ListDir(p) : p \in Paths} \cup {ReadFile(p) : p \in Paths}
             \cup {WriteFile(p, c) : p \in Paths, c \in Contents}

InitExec ==
    /\ fs \in InitialFs
    /\ pc = "unit"
    /\ messages = <<>> /\ ctx = <<>> /\ reply = <<>> /\ final = <<>>
    /\ resp = NoResp /\ outcome = "running"
    /\ tool_call = NoCall /\ last_call = NoCall
    /\ result = NoResult /\ resolved = NoResolve
    /\ fsLog = {} /\ calls = 0 /\ execs = 0 /\ replies = <<>>

ToolStep ==
    /\ pc = "unit"
    /\ execs < MaxOps
    /\ \E call \in ToolCalls : Execute(call)
    /\ UNCHANGED <<replies, messages, pc, resp, reply, tool_call, calls, ctx, final, outcome>>

NextExec == ToolStep
SpecExec == InitExec /\ [][NextExec]_vars

----------------------------------------------------------------------------
(* Agent::run *)

\* tool-call objects the model may emit
JWriteGreeting == Json(TRUE, "write_file", TRUE, <<"greeting.txt">>, TRUE, "hello world")
JWriteDeep == Json(TRUE, "write_file", TRUE, <<"sub", "dir", "file.txt">>, TRUE, "line1\nline2")
JReadF == Json(TRUE, "read_file", TRUE, <<"f">>, FALSE, "")
JReadDotDot == Json(TRUE, "read_file", TRUE, <<"a", "..", "b">>, FALSE, "")
JReadMissing == Json(TRUE, "read_file", TRUE, <<"nofile">>, FALSE, "")
JListRoot == Json(TRUE, "list_dir", TRUE, <<"">>, FALSE, "")
JDelete == Json(TRUE, "delete_file", TRUE, <<"f">>, FALSE, "")
\* objects the ToolCall deserializer refuses: no "tool" field, a write_file
\* without "content", a read_file without "path"
JNoTool == Json(FALSE, "", TRUE, <<"f">>, FALSE, "")
JWriteNoContent == Json(TRUE, "write_file", TRUE, <<"f">>, FALSE, "")
JReadNoPath == Json(TRUE, "read_file", FALSE, <<>>, FALSE, "")
\* the variant's Rust name instead of its serde rename
JVariantName == Json(TRUE, "ListDir", TRUE, <<"f">>, FALSE, "")

NL == Ch("\n")
Prose == <<Ch("I created the file.")>>
PaddedProse == <<Ch(" ")>> \o Prose \o <<NL>>
FencedJson(o) == FenceJson \o <<NL, Js(o), NL>> \o Fence
FencedPlain(o) == Fence \o <<NL, Js(o), NL>> \o Fence

\* replies that decode as a tool call, and replies that do not
ToolReplies == { <<Js(JWriteGreeting)>>, <<Js(JWriteDeep)>>, FencedJson(JReadF),
                 <<NL, Js(JReadDotDot), Ch(" ")>>, <<Js(JReadMissing)>>,
                 FencedPlain(JListRoot) }
\* a fenced tool call with explanatory text before the opening fence, and one
\* with explanatory text after the closing fence
ProseThenFence == Prose \o <<NL>> \o FencedJson(JReadF)
FenceThenProse == FencedJson(JReadF) \o <<NL>> \o Prose
Surrounded == { ProseThenFence, FenceThenProse,
                <<Ch("Here it is:"), NL>> \o FencedPlain(JWriteGreeting) }
Refused == { <<Js(JDelete)>>, <<Js(JNoTool)>>, <<Js(JWriteNoContent)>>, <<Js(JReadNoPath)>>,
             <<Js(JVariantName)>> }
FinalReplies == { Prose, PaddedProse, FencedJson(JDelete) } \cup Surrounded \cup Refused
Replies == ToolReplies \cup FinalReplies

Envelopes ==
    {Envelope("ok", 200, TRUE, <<r>>) : r \in Replies}
    \cup { Envelope("fail", 0, FALSE, <<>>),      \* send() failed
           Envelope("ok", 500, FALSE, <<>>),      \* non-success status
           Envelope("ok", 200, FALSE, <<>>),      \* body is not a Resp (no "choices" field)
           Envelope("ok", 200, TRUE, <<>>),       \* {"choices": []}
           Envelope("ok", 200, TRUE, <<Prose, <<Js(JReadF)>> >>) }

Init ==
    /\ fs \in InitialFs
    /\ pc = "call"
    /\ messages = Agent_new(InitialTask)
    /\ ctx = <<>> /\ reply = <<>> /\ final = <<>>
    /\ resp = NoResp /\ outcome = "running"
    /\ tool_call = NoCall /\ last_call = NoCall
    /\ result = NoResult /\ resolved = NoResolve
    /\ fsLog = {} /\ calls = 0 /\ execs = 0 /\ replies = <<>>

CallLlm_early ==
    /\ pc \in {"call", "push_result"}
    /\ calls < MaxCalls
    /\ ctx' = messages
    /\ calls' = calls + 1
    /\ pc' = "pending"
    /\ UNCHANGED <<replies, messages, resp, reply, tool_call, result, fs, fsLog, execs, final,
                   outcome, last_call, resolved>>

\* call_llm up to the await: the request body holds self.messages
CallLlm ==
    /\ pc = "call"
    /\ calls < MaxCalls
    /\ ctx' = messages
    /\ calls' = calls + 1
    /\ pc' = "pending"
    /\ UNCHANGED <<replies, messages, resp, reply, tool_call, result, fs, fsLog, execs, final,
                   outcome, last_call, resolved>>

LlmResponse_retry ==
    /\ pc = "pending"
    /\ \E env \in Envelopes :
         /\ resp' = env
         /\ IF call_llm(env).ok
            THEN /\ reply' = call_llm(env).content /\ pc' = "classify"
                 /\ replies' = Append(replies, call_llm(env).content)
            ELSE reply' = reply /\ pc' = "call" /\ replies' = replies
    /\ UNCHANGED <<messages, tool_call, result, fs, fsLog, calls, execs, ctx, final,
                   outcome, last_call, resolved>>

\* the response arrives: `self.call_llm().await?`
LlmResponse ==
    /\ pc = "pending"
    /\ \E env \in Envelopes :
         /\ resp' = env
         /\ IF call_llm(env).ok
            THEN /\ reply' = call_llm(env).content /\ pc' = "classify" /\ outcome' = outcome
                 /\ replies' = Append(replies, call_llm(env).content)
            ELSE reply' = reply /\ pc' = "aborted" /\ outcome' = "err" /\ replies' = replies
    /\ UNCHANGED <<messages, tool_call, result, fs, fsLog, calls, execs, ctx, final,
                   last_call, resolved>>

Classify_candidate ==
    /\ pc = "classify"
    /\ LET p == from_str_ToolCall(extract_json_from_markdown(reply))
       IN IF p.ok
          THEN tool_call' = p.call /\ pc' = "marker" /\ UNCHANGED <<final, outcome>>
          ELSE /\ final' = extract_json_from_markdown(reply)
               /\ pc' = "done" /\ outcome' = "ok" /\ tool_call' = tool_call
    /\ UNCHANGED <<replies, messages, resp, reply, result, fs, fsLog, calls, execs, ctx,
                   last_call, resolved>>

Classify_record ==
    /\ pc = "classify"
    /\ LET p == from_str_ToolCall(extract_json_from_markdown(reply))
       IN IF p.ok
          THEN /\ tool_call' = p.call /\ pc' = "marker"
               /\ UNCHANGED <<final, outcome, messages>>
          ELSE /\ final' = reply /\ pc' = "done" /\ outcome' = "ok"
               /\ tool_call' = tool_call
               /\ messages' = Append(messages, ReplyMessage(reply))
    /\ UNCHANGED <<replies, resp, reply, result, fs, fsLog, calls, execs, ctx,
                   last_call, resolved>>

Classify_capped ==
    /\ pc = "classify"
    /\ LET p == from_str_ToolCall(extract_json_from_markdown(reply))
       IN IF p.ok /\ execs < 2
          THEN tool_call' = p.call /\ pc' = "marker" /\ UNCHANGED <<final, outcome>>
          ELSE final' = reply /\ pc' = "done" /\ outcome' = "ok" /\ tool_call' = tool_call
    /\ UNCHANGED <<replies, messages, resp, reply, result, fs, fsLog, calls, execs, ctx,
                   last_call, resolved>>

\* extract, parse and the match: a tool call goes on, anything else is the
\* final answer (break, then Ok(()))
Classify ==
    /\ pc = "classify"
    /\ LET p == from_str_ToolCall(extract_json_from_markdown(reply))
       IN IF p.ok
          THEN tool_call' = p.call /\ pc' = "marker" /\ UNCHANGED <<final, outcome>>
          ELSE final' = reply /\ pc' = "done" /\ outcome' = "ok" /\ tool_call' = tool_call
    /\ UNCHANGED <<replies, messages, resp, reply, result, fs, fsLog, calls, execs, ctx,
                   last_call, resolved>>

PushMarker ==
    /\ pc = "marker"
    /\ messages' = Append(messages, MarkerMessage)
    /\ pc' = "exec"
    /\ UNCHANGED <<replies, resp, reply, tool_call, result, fs, fsLog, calls, execs, ctx, final,
                   outcome, last_call, resolved>>

ExecuteTool_abort ==
    /\ pc = "exec"
    /\ Execute(tool_call)
    /\ IF result'.variant = "Error"
       THEN pc' = "aborted" /\ outcome' = "err"
       ELSE pc' = "push_reply" /\ outcome' = outcome
    /\ UNCHANGED <<replies, messages, resp, reply, tool_call, calls, ctx, final>>

\* execute_tool(tool_call), then to_string(&result)?, which cannot fail for
\* these values
ExecuteTool ==
    /\ pc = "exec"
    /\ Execute(tool_call)
    /\ pc' = "push_reply"
    /\ UNCHANGED <<replies, messages, resp, reply, tool_call, calls, ctx, final, outcome>>

PushReply_candidate ==
    /\ pc = "push_reply"
    /\ messages' = Append(messages, ReplyMessage(extract_json_from_markdown(reply)))
    /\ pc' = "push_result"
    /\ UNCHANGED <<replies, resp, reply, tool_call, result, fs, fsLog, calls, execs, ctx, final,
                   outcome, last_call, resolved>>

PushReply ==
    /\ pc = "push_reply"
    /\ messages' = Append(messages, ReplyMessage(reply))
    /\ pc' = "push_result"
    /\ UNCHANGED <<replies, resp, reply, tool_call, result, fs, fsLog, calls, execs, ctx, final,
                   outcome, last_call, resolved>>

PushResult_replace ==
    /\ pc = "push_result"
    /\ messages' = [messages EXCEPT ![Len(messages)] = ResultMessage(result)]
    /\ pc' = "call"
    /\ UNCHANGED <<replies, resp, reply, tool_call, result, fs, fsLog, calls, execs, ctx, final,
                   outcome, last_call, resolved>>

\* the tool result goes back as a user message; continue
PushResult ==
    /\ pc = "push_result"
    /\ messages' = Append(messages, ResultMessage(result))
    /\ pc' = "call"
    /\ UNCHANGED <<replies, resp, reply, tool_call, result, fs, fsLog, calls, execs, ctx, final,
                   outcome, last_call, resolved>>

Next ==
    \/ CallLlm
    \/ LlmResponse
    \/ Classify
    \/ PushMarker
    \/ ExecuteTool
    \/ PushReply
    \/ PushResult

Spec == Init /\ [][Next]_vars

----------------------------------------------------------------------------
(* Properties of the sandbox and the executor (checked under SpecExec) *)

UnderRoot(loc) == IsPrefix(Root, loc)
HasDotDot(p) == \E i \in DOMAIN p : p[i] = ".."
\* a relative path string with no ".." segment
PlainRelative(p) == ~has_root(p) /\ ~HasDotDot(p)
JustExecuted == execs' = execs + 1

\* C1: every filesystem read, write and directory creation that execute_tool
\* performs targets a location under WORKSPACE_ROOT, whatever path string
\* the call carries.
C1_Confined == \A e \in fsLog : e.ok => UnderRoot(e.loc)

\* C2: a call whose path has a ".." segment anywhere is answered with
\* ToolResult::Error, the message names the path as given, the path is not
\* resolved and no filesystem call is made (the filesystem stays as it was).
C2_DotDotRejected ==
    [][ (JustExecuted /\ HasDotDot(last_call'.path)) =>
          /\ result'.variant = "Error"
          /\ result'.message = Msg("Path must not contain '..' components: ",
                                   last_call'.path, "")
          /\ ~resolved'.ok
          /\ fsLog' = {}
          /\ fs' = fs ]_vars

C2_Witness ==
    /\ last_call.path = <<"a", "..", "b">>
    /\ result.variant = "Error"
    /\ result.message.path = <<"a", "..", "b">>

\* C3: every path that resolve_workspace_path accepts resolves to
\* WORKSPACE_ROOT followed by a separator and the path as given.
C3_RootThenPath ==
    (execs > 0 /\ resolved.ok) => resolved.path = WORKSPACE_ROOT \o last_call.path

\* C9 as stated: for every relative path P (no ".." segment) and text C,
\* read_file(P) right after write_file(P, C) returns ok with content C.
C9_AnyRelativePath ==
    [][ ( /\ JustExecuted
          /\ last_call.tool = "WriteFile" /\ PlainRelative(last_call.path)
          /\ last_call'.tool = "ReadFile" /\ last_call'.path = last_call.path )
        => result' = ToolOk(ContentValue(last_call.content)) ]_vars

\* C9 amended: when write_file(P, C) returned ok, the file at P holds exactly
\* C (whatever P held before) and read_file(P) right after returns ok with
\* content exactly C; write_file returns an error, not ok, when P names an
\* existing directory or ends in '/' or '/.'.
C9_RoundTrip ==
    [][ /\ ( /\ JustExecuted
             /\ last_call.tool = "WriteFile" /\ result.variant = "Ok"
             /\ last_call'.tool = "ReadFile" /\ last_call'.path = last_call.path )
           => result' = ToolOk(ContentValue(last_call.content))
        /\ ( JustExecuted /\ last_call'.tool = "WriteFile" /\ result'.variant = "Ok" )
           => /\ resolved'.ok
              /\ fs'[Locate(resolved'.path)] = File(last_call'.content)
        /\ ( /\ JustExecuted /\ last_call'.tool = "WriteFile" /\ resolved'.ok
             /\ (IsDir(fs, Locate(resolved'.path)) \/ DirOnly(resolved'.path)) )
           => result'.variant = "Error" ]_vars

C9_Witness ==
    /\ last_call = ReadFile(<<"f">>)
    /\ result = ToolOk(ContentValue("line1\nline2"))
    /\ fs[Root \o <<"f">>] = File("line1\nline2")

\* The parent directory of the file P names under the root does not exist,
\* nothing but directories lies on the way to it, and P ends in a file name.
MissingParents(p, f) ==
    LET loc == Locate(WORKSPACE_ROOT \o p)
    IN /\ PlainRelative(p) /\ ~DirOnly(p) /\ Len(loc) > Len(Root)
       /\ ~Exists(f, Front(loc))
       /\ \A i \in 1..(Len(loc) - 1) :
            Exists(f, SubSeq(loc, 1, i)) => IsDir(f, SubSeq(loc, 1, i))

\* C10: write_file to a path whose parent directories do not exist yet
\* returns Ok {"written": true}; afterwards every directory on the way to
\* the file exists, the file holds the content, and everything the call
\* created lies under the root.
C10_CreatesParents ==
    [][ ( JustExecuted /\ last_call'.tool = "WriteFile"
          /\ MissingParents(last_call'.path, fs) )
        => LET loc == Locate(WORKSPACE_ROOT \o last_call'.path)
           IN /\ result' = ToolOk(WrittenValue)
              /\ \A i \in 1..(Len(loc) - 1) : IsDir(fs', SubSeq(loc, 1, i))
              /\ fs'[loc] = File(last_call'.content)
              /\ \A l \in DOMAIN fs' \ DOMAIN fs : UnderRoot(l)
              /\ \A l \in DOMAIN fs : fs'[l] = fs[l] ]_vars

C10_Witness ==
    /\ last_call.tool = "WriteFile"
    /\ last_call.path = <<"sub", "dir", "file.txt">>
    /\ result = ToolOk(WrittenValue)
    /\ IsDir(fs, Root \o <<"sub", "dir">>)
    /\ fs[Root \o <<"sub", "dir", "file.txt">>].kind = "file"

----------------------------------------------------------------------------
(* Properties of the orchestrator loop (checked under Spec) *)

\* the step appends exactly one message
Appends == Len(messages') = Len(messages) + 1 /\ SubSeq(messages', 1, Len(messages)) = messages
\* messages added since the last complete iteration: 0, 1 or 2
Partial == (Len(messages) - 2) % 3
IsToolReply(text) == from_str_ToolCall(extract_json_from_markdown(text)).ok
ModelCallIssued == calls' = calls + 1

\* C4 as stated: the raw reply is appended before the intent is executed, so
\* once the n-th tool has run the history holds the two initial messages,
\* three messages for each earlier tool call, the marker and the raw reply.
C4_ReplyBeforeExecute == execs > 0 => Len(messages) >= 3 * execs + 1

\* C4 amended: an iteration whose reply parses as a tool intent appends the
\* marker, executes the intent, appends the raw reply, appends the
\* serialized outcome as a user message prefixed "TOOL_RESULT: " and only
\* then issues the next model call; the history changes in no other way.
C4_IterationOrder ==
    [][ /\ messages' # messages =>
             /\ Appends
             /\ Partial = 0 => /\ Last(messages') = MarkerMessage
                               /\ IsToolReply(reply)
                               /\ Len(messages) = 3 * execs + 2 /\ execs' = execs
             /\ Partial = 1 => /\ Last(messages') = ReplyMessage(reply)
                               /\ Len(messages) = 3 * execs /\ execs' = execs
             /\ Partial = 2 => /\ Last(messages') =
                                    ChatMessage("user", <<Ch("TOOL_RESULT: ")>>, to_string(result))
                               /\ Len(messages) = 3 * execs + 1 /\ execs' = execs
                               /\ pc' = "call"
        /\ JustExecuted => /\ messages' = messages
                           /\ Last(messages) = MarkerMessage
                           /\ Len(messages) = 3 * execs + 3
                           /\ last_call' = from_str_ToolCall(extract_json_from_markdown(reply)).call
        /\ ModelCallIssued => Len(messages) = 3 * execs + 2 ]_vars

C4_Witness ==
    /\ pc = "pending" /\ calls = 2 /\ execs = 1
    /\ messages = Agent_new(InitialTask)
                  \o <<MarkerMessage, ReplyMessage(FencedJson(JReadF)), ResultMessage(result)>>

\* C5: a reply that does not decode as a tool intent ends the run with
\* success: the raw reply is the final answer, no tool runs, nothing else
\* changes; and the run is done only after such a reply.
C5_FinalAnswer ==
    [][ /\ (pc = "classify" /\ ~IsToolReply(reply)) =>
             /\ pc' = "done" /\ outcome' = "ok" /\ final' = reply
             /\ execs' = execs /\ calls' = calls
             /\ messages' = messages /\ fs' = fs
        /\ (pc' = "done" /\ pc # "done") => (pc = "classify" /\ ~IsToolReply(reply))
        /\ (outcome' = "ok") <=> (pc' = "done") ]_vars

C5_Witness ==
    /\ pc = "done" /\ outcome = "ok" /\ execs = 1
    /\ final = PaddedProse /\ extract_json_from_markdown(final) # final

\* C6: a tool execution that ends in an error does not end the run: the
\* error is serialized as {"status":"error","message":...}, appended as a
\* TOOL_RESULT user message, and the loop is back at the model call.  The
\* run ends with an error only when a model call fails.
C6_ToolErrorsContinue ==
    [][ /\ (JustExecuted /\ result'.variant = "Error") =>
             (outcome' = "running" /\ pc' \notin {"aborted", "done"})
        /\ (messages' # messages /\ Partial = 2 /\ result.variant = "Error") =>
             /\ Last(messages') =
                  ChatMessage("user", <<Ch("TOOL_RESULT: ")>>,
                              [status |-> "error", keys |-> {"status", "message"},
                               result |-> NoValue, message |-> result.message])
             /\ pc' = "call" /\ outcome' = "running"
        /\ (outcome' = "err" /\ outcome # "err") =>
             (pc = "pending" /\ ~call_llm(resp').ok /\ ~JustExecuted) ]_vars

C6_Witness ==
    /\ pc = "pending" /\ calls = 3 /\ outcome = "running"
    /\ result.variant = "Error" /\ result.message.cause = "ENOENT"
    /\ Last(messages).content.json.status = "error"
    /\ messages[5].content.json.message.text = "Path must not contain '..' components: "

\* the failures C7 lists: no connection, a non-success status, a body that
\* does not decode as the envelope
Undecodable(env) == env.net # "ok" \/ ~is_success(env.status) \/ ~env.decodes
NoChoices(env) == env.choices = <<>>

\* C7 as stated: a failed model call, a response envelope without choices
\* included, aborts the run.
C7_NoChoicesAborts ==
    (calls > 0 /\ pc # "pending" /\ (Undecodable(resp) \/ NoChoices(resp)))
        => (pc = "aborted" /\ outcome = "err")

\* C7 amended: a model call that fails (no connection, non-success status,
\* body that does not decode as the envelope) aborts the run at once, with
\* the history and the filesystem as they were before the call, and nothing
\* happens after that; a decodable envelope whose choices list is empty is
\* not a failure: the call returns the empty string as the reply.
C7_FailedCallAborts ==
    [][ /\ (pc = "pending" /\ pc' # "pending" /\ Undecodable(resp')) =>
             /\ pc' = "aborted" /\ outcome' = "err"
             /\ messages' = messages /\ messages' = ctx /\ fs' = fs
             /\ calls' = calls /\ execs' = execs
        /\ (pc = "pending" /\ pc' # "pending" /\ ~Undecodable(resp') /\ NoChoices(resp')) =>
             (pc' = "classify" /\ reply' = <<>> /\ outcome' = "running")
        /\ (pc = "aborted") => UNCHANGED <<pc, calls, execs, messages, fs, outcome>> ]_vars

C7_Witness ==
    /\ pc = "aborted" /\ outcome = "err" /\ execs = 1 /\ calls = 2
    /\ resp = Envelope("ok", 200, FALSE, <<>>)
    /\ Len(messages) = 5

\* C8: the history starts as [system prompt, user task]; every step leaves
\* the earlier history as a prefix of the new one; every model call carries
\* the whole current history.
C8_AppendOnly ==
    [][ /\ IsPrefix(messages, messages')
        /\ SubSeq(messages, 1, 2) = Agent_new(InitialTask)
        /\ (calls = 0 => messages = Agent_new(InitialTask))
        /\ messages[1].role = "system" /\ messages[2].role = "user"
        /\ ModelCallIssued => (ctx' = messages /\ messages' = messages) ]_vars

C8_Witness ==
    /\ pc = "pending" /\ calls = 3
    /\ Len(messages) = 8 /\ ctx = messages

----------------------------------------------------------------------------
(* list_dir (checked under SpecExec) *)

\* C11: list_dir on an existing directory returns exactly one entry per
\* direct child, carrying the child's name, is_dir true exactly for a
\* directory and is_file true exactly for a regular file (both false for
\* any other type); list_dir on an accepted path that is missing or not a
\* directory returns an error naming the resolved path.
C11_Listing ==
    [][ (JustExecuted /\ last_call'.tool = "ListDir" /\ resolved'.ok) =>
          LET loc == Locate(resolved'.path)
              kids == Children(fs, loc)
              es == result'.result.entries
          IN IF IsDir(fs, loc) /\ WalkErr(fs, loc) = ""
             THEN /\ result'.variant = "Ok" /\ result'.result.shape = "entries"
                  /\ Len(es) = Cardinality(kids)
                  /\ \A l \in kids : \E i \in DOMAIN es :
                       /\ es[i].name.Unix = Last(l)
                       /\ es[i].is_dir = (fs[l].kind = "dir")
                       /\ es[i].is_file = (fs[l].kind = "file")
                  /\ \A i \in DOMAIN es : ~(es[i].is_dir /\ es[i].is_file)
             ELSE /\ result'.variant = "Error"
                  /\ result'.message.text = "read_dir failed on "
                  /\ result'.message.path = resolved'.path ]_vars

\* the root of FsPopulated, one subdirectory d and one file f, was listed
C11_Witness ==
    /\ last_call = ListDir(<<"">>)
    /\ result.variant = "Ok"
    /\ Len(result.result.entries) = 2
    /\ \E i, j \in 1..2 :
         /\ result.result.entries[i] = [name |-> [Unix |-> "d"], is_dir |-> TRUE, is_file |-> FALSE]
         /\ result.result.entries[j] = [name |-> [Unix |-> "f"], is_dir |-> FALSE, is_file |-> TRUE]

----------------------------------------------------------------------------
(* What execute_tool leaves in place (checked under SpecExec) *)

\* C18: no tool removes anything: every file and directory that existed
\* before a call exists after it, with its type; a file's content changes
\* only through a write_file that returned ok for that very path; list_dir
\* and read_file leave the whole filesystem unchanged.
C18_NothingRemoved ==
    [][ JustExecuted =>
          /\ \A l \in DOMAIN fs : l \in DOMAIN fs' /\ fs'[l].kind = fs[l].kind
          /\ \A l \in DOMAIN fs : fs'[l] # fs[l] =>
                /\ last_call'.tool = "WriteFile" /\ result' = ToolOk(WrittenValue)
                /\ Locate(resolved'.path) = l
                /\ fs'[l] = File(last_call'.content)
          /\ last_call'.tool \in {"ListDir", "ReadFile"} => fs' = fs ]_vars

\* f, d and d/g of FsPopulated are still there after f was overwritten and
\* a new file was written below d
C18_Witness ==
    /\ execs = 2
    /\ last_call.tool = "WriteFile" /\ result = ToolOk(WrittenValue)
    /\ {Root \o <<"f">>, Root \o <<"d", "g">>, Root \o <<"sub", "dir", "file.txt">>}
          \subseteq DOMAIN fs
    /\ fs[Root \o <<"f">>] = File("")
    /\ fs[Root \o <<"d", "g">>] = File("line1\nline2")
    /\ IsDir(fs, Root \o <<"d">>)

\* C19 as stated: a write_file that returns an error has changed nothing in
\* the filesystem.
C19_FailedWriteChangesNothing ==
    [][ (JustExecuted /\ last_call'.tool = "WriteFile" /\ result'.variant = "Error")
        => fs' = fs ]_vars

\* C19 amended: a write_file that returns an error has created or modified
\* no file and removed nothing, and when the sandbox check or the creation
\* of the parent directories is what failed it has changed nothing at all;
\* but when the directories were created and writing the file then failed,
\* the directories it created stay.
C19_FailedWriteKeepsFiles ==
    [][ (JustExecuted /\ last_call'.tool = "WriteFile" /\ result'.variant = "Error") =>
          /\ \A l \in DOMAIN fs : l \in DOMAIN fs' /\ fs'[l] = fs[l]
          /\ \A l \in DOMAIN fs' \ DOMAIN fs : fs'[l] = Dir
          /\ result'.message.text # "Failed to write " => fs' = fs
          /\ fs' # fs => /\ result'.message = Msg("Failed to write ", resolved'.path,
                                                   result'.message.cause)
                         /\ \A l \in DOMAIN fs' \ DOMAIN fs :
                              IsPrefix(l, Locate(resolved'.path)) ]_vars

\* write_file("n/s/.") failed and left the directory n behind
C19_Witness ==
    /\ last_call.tool = "WriteFile" /\ last_call.path = <<"n", "s", ".">>
    /\ result.variant = "Error" /\ result.message.text = "Failed to write "
    /\ IsDir(fs, Root \o <<"n">>)
    /\ ~Exists(fs, Root \o <<"n", "s">>)

----------------------------------------------------------------------------
(* extract_json_from_markdown and the ToolCall parser on their own *)

CR == Ch("\r")

\* a JSON object written over several lines
MultiLineJson == <<Ch("{"), NL, Ch("\"a\": 1"), NL, Ch("}")>>

Payloads == { <<Js(JReadF)>>, <<Js(JWriteGreeting)>>, <<Js(JDelete)>>, <<Js(JNoTool)>>,
              MultiLineJson }

\* language tags of an opening fence line
TagRust == <<Ch("r"), Ch("u"), Ch("s"), Ch("t")>>
TagText == <<Ch("t"), Ch("x"), Ch("t"), Ch(" ")>>
TagJsonc == <<Ch("j"), Ch("s"), Ch("o"), Ch("n"), Ch("c")>>
Tags == {TagRust, TagText, TagJsonc}

Pads == { <<>>, <<NL>>, <<Ch(" "), Ch("\t")>> }
LineEnds == { <<NL>>, <<CR, NL>> }

\* J inside a ```json fence
InJsonFence(J) ==
    { pre \o FenceJson \o open \o J \o close \o Fence \o post :
        pre \in {<<>>, <<NL>>}, open \in LineEnds \cup {<<Ch(" ")>>},
        close \in {<<NL>>, <<>>}, post \in {<<>>, <<NL>>} }
\* J inside a generic fence whose opening line holds nothing else
InPlainFence(J) ==
    { pre \o Fence \o open \o J \o close \o Fence \o post :
        pre \in {<<>>, <<NL>>}, open \in LineEnds,
        close \in {<<NL>>, <<>>}, post \in {<<>>, <<NL>>} }
\* J inside a generic fence whose opening line holds a language tag
InTaggedFence(J) ==
    { pre \o Fence \o tag \o open \o J \o <<NL>> \o Fence \o post :
        pre \in {<<>>, <<NL>>}, tag \in Tags, open \in LineEnds, post \in {<<>>, <<NL>>} }
\* raw J with whitespace around it
Padded(J) == { pre \o J \o post : pre \in Pads, post \in Pads }

Wrapped(J) == InJsonFence(J) \cup InPlainFence(J) \cup InTaggedFence(J) \cup Padded(J)
Texts == UNION {Wrapped(J) : J \in Payloads} \cup {Prose, PaddedProse}

InitDecode ==
    /\ reply \in Texts
    /\ pc = "decode"
    /\ fs = FsPopulated
    /\ messages = <<>> /\ ctx = <<>> /\ final = <<>>
    /\ resp = NoResp /\ outcome = "running"
    /\ tool_call = NoCall /\ last_call = NoCall
    /\ result = NoResult /\ resolved = NoResolve
    /\ fsLog = {} /\ calls = 0 /\ execs = 0 /\ replies = <<>>

\* lines 118-121: the candidate, then the attempt to decode it
Decode ==
    /\ pc = "decode"
    /\ final' = extract_json_from_markdown(reply)
    /\ tool_call' = from_str_ToolCall(extract_json_from_markdown(reply)).call
    /\ outcome' = IF from_str_ToolCall(extract_json_from_markdown(reply)).ok
                  THEN "ok" ELSE "err"
    /\ pc' = "decoded"
    /\ UNCHANGED <<replies, messages, resp, reply, result, fs, fsLog, calls, execs, ctx,
                   last_call, resolved>>

NextDecode == Decode
SpecDecode == InitDecode /\ [][NextDecode]_vars

\* C12: for every payload J the extractor returns exactly J from J inside a
\* ```json fence, from J inside a generic fence with or without a language
\* tag on the opening line, and from raw J with whitespace around it; text
\* that starts with no fence is returned trimmed and otherwise unchanged.
C12_SamePayload ==
    pc = "decoded" =>
        /\ \A J \in Payloads : reply \in Wrapped(J) => final = J
        /\ ~starts_with(trim(reply), Fence) => final = trim(reply)

----------------------------------------------------------------------------
(* Extraction and parsing inside the loop (checked under Spec) *)

RefusedObject(o) ==
    \/ ~o.hasTool
    \/ o.tool \notin {"list_dir", "read_file", "write_file"}
    \/ ~o.hasPath
    \/ (o.tool = "write_file" /\ ~o.hasContent)
CandidateObject(text) ==
    LET c == extract_json_from_markdown(text)
    IN Len(c) = 1 /\ c[1].isJson
Candidate(text) == extract_json_from_markdown(text)[1].j

\* C14: a candidate object with no "tool" field, with a "tool" value other
\* than list_dir, read_file and write_file, or with a recognized "tool" but
\* without "path" (or, for write_file, without "content") is rejected: the
\* run ends there with no tool execution and no change to the filesystem or
\* the history; every execution is of a call decoded from an object that has
\* a recognized tag and all its fields, and nothing runs after the end.
C14_RejectedNotExecuted ==
    [][ /\ (pc = "classify" /\ CandidateObject(reply) /\ RefusedObject(Candidate(reply))) =>
              /\ pc' = "done" /\ tool_call' = tool_call
              /\ execs' = execs /\ fs' = fs /\ messages' = messages
        /\ (pc = "classify" /\ pc' = "marker") =>
              /\ CandidateObject(reply) /\ ~RefusedObject(Candidate(reply))
              /\ tool_call'.tool = ToolTags[Candidate(reply).tool]
              /\ tool_call'.path = Candidate(reply).path
        /\ JustExecuted => pc = "exec" /\ last_call' = tool_call
                           /\ last_call'.tool \in {"ListDir", "ReadFile", "WriteFile"}
        /\ pc = "done" => execs' = execs ]_vars

C14_Witness ==
    /\ pc = "done" /\ reply = <<Js(JWriteNoContent)>>
    /\ execs = 2 /\ last_call.tool = "WriteFile"

----------------------------------------------------------------------------
(* The greeting scenario (checked under Spec) *)

Greeting == Root \o <<"greeting.txt">>
GreetingReply == <<Js(JWriteGreeting)>>
WrittenJson ==
    [status |-> "ok", keys |-> {"status", "result"}, result |-> WrittenValue,
     message |-> NoMsg]
\* the model has answered the write_file request first and prose second
GreetingThenProse ==
    Len(replies) >= 2 /\ replies[1] = GreetingReply /\ replies[2] = Prose

\* C15: when the first reply is the write_file request for greeting.txt and
\* the second is plain prose, then once the second reply has arrived
\* greeting.txt under the root holds "hello world", the history is the two
\* initial messages followed by the marker, the reply and the tool result
\* {"status":"ok","result":{"written":true}}, two model calls and one tool
\* execution have been made, and the one step left ends the run with the
\* prose as the final answer; nothing happens after that.
C15_GreetingScenario ==
    [][ /\ GreetingThenProse =>
              /\ Len(replies) = 2 /\ calls = 2 /\ execs = 1
              /\ pc \in {"classify", "done"}
              /\ last_call = WriteFile(<<"greeting.txt">>, "hello world")
              /\ Greeting \in DOMAIN fs /\ fs[Greeting] = File("hello world")
              /\ messages = Agent_new(InitialTask)
                            \o << MarkerMessage, ReplyMessage(GreetingReply),
                                  ResultMessage(ToolOk(WrittenValue)) >>
              /\ messages[5].content.json = WrittenJson
        /\ (GreetingThenProse /\ pc = "classify") =>
              /\ pc' = "done" /\ final' = Prose /\ outcome' = "ok"
              /\ calls' = 2 /\ execs' = 1 /\ fs' = fs /\ messages' = messages
        /\ (GreetingThenProse /\ pc = "done") => UNCHANGED vars
        /\ (replies = <<GreetingReply>> /\ calls = 1) =>
              pc \in {"classify", "marker", "exec", "push_reply", "push_result", "call"} ]_vars

C15_Witness ==
    /\ GreetingThenProse /\ pc = "done" /\ final = Prose /\ outcome = "ok"
    /\ calls = 2 /\ execs = 1 /\ fs[Greeting] = File("hello world")

----------------------------------------------------------------------------
(* Order of the loop's operations (checked under Spec) *)

\* C16: the loop is strictly sequential. Each iteration makes one model call
\* (the calls made are the executions done, plus one while an iteration is
\* open), parses each reply once and executes at most one tool for it; a
\* tool runs only when the reply of the current call has been received and
\* decoded as a tool call; a model call is issued only when every earlier
\* execution has its outcome at the end of the history; while a call is
\* pending neither the filesystem nor the history (nor anything else but the
\* arrival of the response) changes; nothing is retried: a failed call ends
\* the run and every reply is classified exactly once.
C16_StrictlySequential ==
    [][ /\ calls \in {execs, execs + 1}
        /\ ModelCallIssued =>
              /\ pc = "call" /\ pc' = "pending"
              /\ calls = execs /\ Len(replies) = calls
              /\ Len(messages) = 2 + 3 * execs
              /\ (execs > 0 => Last(messages) = ResultMessage(result))
              /\ ctx' = messages
        /\ JustExecuted =>
              /\ pc = "exec" /\ pc' = "push_reply"
              /\ calls = execs + 1 /\ Len(replies) = calls /\ replies[calls] = reply
              /\ IsToolReply(reply)
              /\ last_call' = from_str_ToolCall(extract_json_from_markdown(reply)).call
        /\ pc = "pending" =>
              /\ fs' = fs /\ messages' = messages /\ execs' = execs /\ calls' = calls
              /\ pc' \in {"classify", "aborted"}
              /\ Len(replies) = calls - 1
        /\ pc' = "classify" => pc = "pending" /\ Len(replies') = calls
        /\ pc = "classify" => pc' \in {"marker", "done"} /\ replies' = replies
        /\ pc \in {"aborted", "done"} => UNCHANGED vars ]_vars

C16_Witness ==
    /\ pc = "pending" /\ calls = 3 /\ execs = 2 /\ Len(messages) = 8
    /\ result.variant = "Error"

----------------------------------------------------------------------------
(* Termination of the loop (checked under FairSpec) *)

\* The step out of the match of lines 121-154: the candidate has been parsed
\* and run either goes on to the tool call or breaks. It is the step Classify
\* takes, named by the position alone (Classify is enabled whenever
\* pc = "classify" and is the only action of Next there).
LeavesMatch == pc = "classify" /\ pc' \in {"marker", "done"}

\* Agent::run with the scheduling the program has: run is the only task and
\* extraction and parsing are plain computation, so once a reply is there
\* the match is left. Nothing is assumed of the model call, which has no
\* timeout and may stay pending for ever.
\* Whether the run ends does not depend on what the workspace holds: the
\* fair specification starts from the populated workspace alone.
InitFair == Init /\ fs = FsPopulated
FairSpec == InitFair /\ [][Next]_vars /\ WF_pc(LeavesMatch)

AllToolReplies == \A i \in DOMAIN replies : IsToolReply(replies[i])
NonToolReplyReceived == replies # <<>> /\ ~IsToolReply(Last(replies))

\* C17: the loop counts nothing and ends only on a reply that is not a tool
\* call. While every reply received decodes as a tool call and no model call
\* has failed, the run has not ended, whatever the number of iterations
\* done: every iteration goes back to a new model call whose answer is
\* awaited. The run reaches Done only from a reply that does not decode as a
\* tool call, and once such a reply has been received the run does reach
\* Done.
C17_EndsOnlyOnNonToolReply ==
    /\ []((AllToolReplies /\ pc # "aborted") =>
              /\ pc # "done" /\ outcome = "running"
              /\ execs \in {Len(replies) - 1, Len(replies)})
    /\ [][ /\ pc' = "done" => pc = "classify" /\ NonToolReplyReceived
           /\ pc = "push_result" => pc' = "call" /\ execs = calls
           /\ pc' = "aborted" => pc = "pending" /\ ~call_llm(resp').ok
           /\ ModelCallIssued => pc' = "pending" /\ AllToolReplies ]_vars
    /\ (NonToolReplyReceived ~> pc = "done")

C17_Witness ==
    /\ pc = "pending" /\ calls = MaxCalls /\ execs = MaxCalls - 1
    /\ Len(replies) = MaxCalls - 1 /\ AllToolReplies /\ outcome = "running"

----------------------------------------------------------------------------
(* The history at the end of the run (checked under Spec) *)

\* C20: the final answer is not recorded. The step that ends the run on a
\* reply that is no tool call leaves the history and the filesystem as they
\* were, so at Done the history holds the two initial messages and three
\* messages per executed tool call (2 + 3k after k executions), its assistant
\* messages are the markers and the k replies that were tool calls (the
\* final answer is the reply after them), and its last message is the user
\* task (k = 0) or the TOOL_RESULT user message of the last execution.
C20_FinalAnswerNotRecorded ==
    [][ /\ (pc = "classify" /\ pc' = "done") =>
              /\ ~IsToolReply(reply)
              /\ messages' = messages /\ fs' = fs /\ final' = reply
        /\ pc' = "done" =>
              /\ Len(messages') = 2 + 3 * execs'
              /\ Len(replies') = execs' + 1 /\ final' = Last(replies')
              /\ \A i \in 1..execs' : messages'[3 * i + 1] = ReplyMessage(replies'[i])
              /\ \A i \in DOMAIN messages' :
                     messages'[i].role = "assistant" /\ messages'[i] # MarkerMessage
                         => i % 3 = 1 /\ i > 3
              /\ Last(messages').role = "user"
              /\ (execs' = 0 => messages' = Agent_new(InitialTask))
              /\ (execs' > 0 => Last(messages') = ResultMessage(result')) ]_vars

C20_Witness ==
    /\ pc = "done" /\ execs = 2 /\ Len(messages) = 8
    /\ final = PaddedProse
    /\ \A i \in DOMAIN messages : messages[i].content.text # PaddedProse

====
